---- MODULE Spec2Model ----
(***************************************************************************)
(* The Spreadsheet class of excel_like_program.py: one pandas DataFrame    *)
(* `df` and the methods that read and change it.  A DataFrame is modelled  *)
(* as its ordered column labels and its ordered rows (each row a function  *)
(* from column label to cell); its index is always 0..n-1 here.  Python    *)
(* values (cells and column labels) are tagged records, text is a sequence *)
(* of one-character strings so that parsing and formatting are computed.   *)
(***************************************************************************)
EXTENDS Integers, Sequences, FiniteSets, TLC

VARIABLES df,        \* Spreadsheet.df
          op,        \* the call that produced this state: method and arguments
          out,       \* what that call printed (or the exception it let escape)
          rendered,  \* the matplotlib.pyplot calls that call made, in order
          saved,     \* the file at the path save_csv writes to
          proc       \* the process running main: "menu", "exited" or "crashed"

vars == <<df, op, out, rendered, saved, proc>>

(***************************************************************************)
(* Bounds of the model.                                                    *)
(***************************************************************************)
\* add_row and add_column never grow a table past MaxRows rows or MaxCols
\* columns, and are given value lists of at most that length.
MaxRows == 2
MaxCols == 2

(***************************************************************************)
(* Python values.                                                          *)
(***************************************************************************)
StrVal(chars) == [t |-> "str", s |-> chars, n |-> 0]
IntVal(k) == [t |-> "int", s |-> <<>>, n |-> k]
FloatVal(k) == [t |-> "float", s |-> <<>>, n |-> k]      \* the float k.0
NaN == [t |-> "nan", s |-> <<>>, n |-> 0]

DigitChars == <<"0", "1", "2", "3", "4", "5", "6", "7", "8", "9">>
IsDigit(c) == \E i \in DOMAIN DigitChars : DigitChars[i] = c
DigitVal(c) == (CHOOSE i \in DOMAIN DigitChars : DigitChars[i] = c) - 1

RECURSIVE IntStr(_)
\* str(k) for an int k >= 0
IntStr(k) ==
    IF k < Len(DigitChars) THEN <<DigitChars[k + 1]>>
    ELSE IntStr(k \div Len(DigitChars)) \o <<DigitChars[(k % Len(DigitChars)) + 1]>>

\* str(v): what Series.astype(str) makes of one cell
astype_str(v) ==
    CASE v.t = "str" -> v.s
      [] v.t = "int" -> IntStr(v.n)
      [] v.t = "float" -> IntStr(v.n) \o <<".", "0">>
      [] v.t = "nan" -> <<"n", "a", "n">>

AllDigits(chars) == Len(chars) > 0 /\ \A i \in DOMAIN chars : IsDigit(chars[i])

RECURSIVE DigitsVal(_)
DigitsVal(chars) ==
    IF chars = <<>> THEN 0
    ELSE DigitsVal(SubSeq(chars, 1, Len(chars) - 1)) * Len(DigitChars)
         + DigitVal(chars[Len(chars)])

DotAt(chars) == {i \in DOMAIN chars : chars[i] = "."}
Digits(chars) == \A i \in DOMAIN chars : IsDigit(chars[i])

\* The number a text spells: an int literal (digits), or a float literal
\* (digits "." digits, one side possibly empty) whose fraction is zero; the
\* texts of the model spell no other fraction.  Any other text spells no
\* number.
ParseNumber(chars) ==
    IF AllDigits(chars) THEN IntVal(DigitsVal(chars))
    ELSE IF /\ Cardinality(DotAt(chars)) = 1
            /\ Len(chars) > 1
            /\ LET d == CHOOSE i \in DotAt(chars) : TRUE
               IN /\ Digits(SubSeq(chars, 1, d - 1))
                  /\ \A i \in (d + 1)..Len(chars) : chars[i] = "0"
         THEN LET d == CHOOSE i \in DotAt(chars) : TRUE
              IN FloatVal(DigitsVal(SubSeq(chars, 1, d - 1)))
         ELSE NaN

\* pd.to_numeric(cell, errors='coerce')
to_numeric(v) == IF v.t = "str" THEN ParseNumber(v.s) ELSE v

IsNumber(v) == v.t \in {"int", "float"}

(***************************************************************************)
(* Sequence helpers.                                                       *)
(***************************************************************************)
Range(seq) == {seq[i] : i \in DOMAIN seq}
IndexOf(seq, e) == CHOOSE i \in DOMAIN seq : seq[i] = e

(***************************************************************************)
(* DataFrames.                                                             *)
(***************************************************************************)
DataFrame == [columns |-> <<>>, rows |-> <<>>]          \* pd.DataFrame()
empty(d) == Len(d.columns) = 0 \/ Len(d.rows) = 0       \* DataFrame.empty
Column(d, c) == [i \in DOMAIN d.rows |-> d.rows[i][c]]  \* df[c]

(***************************************************************************)
(* The files Load can be pointed at.  A CSV file is its header fields and  *)
(* its records' fields, each field a text.  No file of the catalogue has a *)
(* first record longer than its header.                                    *)
(***************************************************************************)
Csv(header, records) == [kind |-> "csv", header |-> header, records |-> records]
NoFile == [kind |-> "absent", header |-> <<>>, records |-> <<>>]
ZeroBytes == [kind |-> "zero_bytes", header |-> <<>>, records |-> <<>>]

Paths == {"absent.csv", "blank.csv", "ragged.csv", "header.csv",
          "mixed.csv", "ints.csv", "column.csv", "twice.csv"}

\* the path save_csv can write to, and one in a directory that does not exist
SavePath == "out.csv"
NoDirPath == "nodir/out.csv"

FileAt(path) ==
    CASE path = SavePath -> saved
      [] path = NoDirPath -> NoFile
      [] path = "absent.csv" -> NoFile
      [] path = "blank.csv" -> ZeroBytes
      [] path = "ragged.csv" ->
            Csv(<<<<"a">>, <<"b">>>>,
                << <<<<"1">>, <<"2">>>>, <<<<"1">>, <<"2">>, <<"3">>>> >>)
      [] path = "header.csv" -> Csv(<<<<"a">>, <<"b">>>>, <<>>)
      [] path = "mixed.csv" ->
            Csv(<<<<"a">>, <<"b">>>>,
                << <<<<"3">>, <<"x">>>>, <<<<>>, <<"X">>>> >>)
      [] path = "ints.csv" -> Csv(<<<<"b">>>>, << <<<<"3">>>> >>)
      [] path = "twice.csv" -> Csv(<<<<"a">>, <<"a">>>>, << <<<<"x">>, <<"3">>>> >>)
      [] path = "column.csv" ->
            Csv(<<<<"a">>>>, << <<<<"1">>>>, <<<<"2">>>>, <<<<"x">>>>, <<<<"4">>>> >>)

\* field j of a record; a record shorter than the header is padded with
\* empty fields
Field(rec, j) == IF j <= Len(rec) THEN rec[j] ELSE <<>>

IsNA(chars) == chars = <<>>

\* read_csv's dtype of column j: int64, float64 or object
InferDtype(f, j) ==
    LET fields == {Field(f.records[i], j) : i \in DOMAIN f.records}
    IN IF f.records = <<>> THEN "object"
       ELSE IF \A x \in fields : AllDigits(x) THEN "int64"
       ELSE IF \A x \in fields : IsNA(x) \/ IsNumber(ParseNumber(x)) THEN "float64"
       ELSE "object"

\* the cell read_csv makes of one field of a column of the given dtype
ParseField(chars, dtype) ==
    IF IsNA(chars) THEN NaN
    ELSE IF dtype = "int64" THEN ParseNumber(chars)
    ELSE IF dtype = "float64" THEN FloatVal(ParseNumber(chars).n)
    ELSE StrVal(chars)

\* read_csv's label of column j: the header field, with ".k" added to its
\* k-th repetition
Label(header, j) ==
    LET before == Cardinality({k \in 1..(j - 1) : header[k] = header[j]})
    IN IF before = 0 THEN StrVal(header[j])
       ELSE StrVal(header[j] \o <<".">> \o IntStr(before))

\* pd.read_csv(path): the exception raised, or the DataFrame decoded
read_csv(path) ==
    LET f == FileAt(path)
    IN IF f.kind = "absent" THEN [raised |-> "FileNotFoundError", df |-> DataFrame]
       ELSE IF f.kind = "zero_bytes" \/ Len(f.header) = 0
       THEN [raised |-> "EmptyDataError", df |-> DataFrame]
       ELSE IF \E i \in DOMAIN f.records : Len(f.records[i]) > Len(f.header)
       THEN [raised |-> "ParserError", df |-> DataFrame]
       ELSE [raised |-> "",
             df |-> [columns |-> [j \in DOMAIN f.header |-> Label(f.header, j)],
                     rows |-> [i \in DOMAIN f.records |->
                                 [c \in {Label(f.header, j) : j \in DOMAIN f.header} |->
                                    LET j == CHOOSE k \in DOMAIN f.header :
                                                 Label(f.header, k) = c
                                    IN ParseField(Field(f.records[i], j),
                                                  InferDtype(f, j))]]]]

(***************************************************************************)
(* Spreadsheet methods: each gives the DataFrame the call leaves in        *)
(* self.df, what it prints (`out`) and the pyplot calls it makes.          *)
(***************************************************************************)
Printed(msg) == [msg |-> msg, raised |-> FALSE, val |-> <<>>]
PrintedVal(msg, val) == [msg |-> msg, raised |-> FALSE, val |-> val]
Raised(exc) == [msg |-> exc, raised |-> TRUE, val |-> <<>>]
Result(d, o) == [df |-> d, out |-> o, rendered |-> <<>>]

\* load_csv had it emptied self.df before reading
load_csv_clearing(d, path) ==
    LET r == read_csv(path)
    IN IF r.raised = "" THEN Result(r.df, Printed("Loaded data"))
       ELSE IF r.raised = "FileNotFoundError"
       THEN Result(DataFrame, Printed("Error: File not found."))
       ELSE IF r.raised = "EmptyDataError"
       THEN Result(DataFrame, Printed("Error: The CSV file is empty."))
       ELSE Result(DataFrame, Printed("Failed to load CSV"))

\* Spreadsheet.load_csv
load_csv(d, path) ==
    LET r == read_csv(path)
    IN IF r.raised = "" THEN Result(r.df, Printed("Loaded data"))
       ELSE IF r.raised = "FileNotFoundError"
       THEN Result(d, Printed("Error: File not found."))
       ELSE IF r.raised = "EmptyDataError"
       THEN Result(d, Printed("Error: The CSV file is empty."))
       ELSE Result(d, Printed("Failed to load CSV"))

\* the field to_csv writes for a cell: nothing for NaN, else its string form
CsvField(v) == IF v.t = "nan" THEN <<>> ELSE astype_str(v)

\* df.to_csv(path, index=False): the labels as header, a record per row
to_csv(d) ==
    Csv([j \in DOMAIN d.columns |-> astype_str(d.columns[j])],
        [i \in DOMAIN d.rows |->
           [j \in DOMAIN d.columns |-> CsvField(d.rows[i][d.columns[j]])]])

\* Spreadsheet.save_csv: also gives the file then at SavePath
save_csv(d, path, file) ==
    IF path = SavePath
    THEN [df |-> d, out |-> Printed("Saved data"), rendered |-> <<>>, saved |-> to_csv(d)]
    ELSE [df |-> d, out |-> Printed("Failed to save CSV"), rendered |-> <<>>,
          saved |-> file]

\* df.head(n)
head(d, n) ==
    [columns |-> d.columns,
     rows |-> IF n >= 0
              THEN SubSeq(d.rows, 1, IF n < Len(d.rows) THEN n ELSE Len(d.rows))
              ELSE SubSeq(d.rows, 1, Len(d.rows) + n)]

\* view had it kept only the rows it shows
view_truncating(d, n) ==
    IF empty(d) THEN Result(d, Printed("The spreadsheet is empty."))
    ELSE Result(head(d, n), PrintedVal("head", head(d, n)))

\* view had it taken n = 0 for "nothing to show"
view_falsy(d, n) ==
    IF empty(d) \/ n = 0 THEN Result(d, Printed("The spreadsheet is empty."))
    ELSE Result(d, PrintedVal("head", head(d, n)))

\* Spreadsheet.view
view(d, n) ==
    IF empty(d) THEN Result(d, Printed("The spreadsheet is empty."))
    ELSE Result(d, PrintedVal("head", head(d, n)))

\* pd.DataFrame([values]) had it labelled the columns from 1
DataFrameOfRow_from1(values) ==
    [columns |-> [j \in DOMAIN values |-> IntVal(j)],
     rows |-> << [c \in {IntVal(j) : j \in DOMAIN values} |-> values[c.n]] >>]

\* pd.DataFrame([values]): one row, columns labelled 0, 1, ...
DataFrameOfRow(values) ==
    [columns |-> [j \in DOMAIN values |-> IntVal(j - 1)],
     rows |-> << [c \in {IntVal(j - 1) : j \in DOMAIN values} |-> values[c.n + 1]] >>]

\* df.loc[len(df)] = values: len(df) is no label of the index, the row is
\* appended
LocEnlarge(d, values) ==
    [columns |-> d.columns,
     rows |-> Append(d.rows, [c \in Range(d.columns) |-> values[IndexOf(d.columns, c)]])]

\* Spreadsheet.add_row
add_row(d, values) ==
    IF ~empty(d) /\ Len(values) # Len(d.columns)
    THEN Result(d, Printed("Error: Expected values"))
    ELSE IF empty(d)
    THEN Result(DataFrameOfRow(values), Printed("Row added."))
    ELSE Result(LocEnlarge(d, values), Printed("Row added."))

\* df[name] = values had it always added a column at the end
SetColumn_appending(d, name, values) ==
    [columns |-> Append(d.columns, name),
     rows |-> [i \in DOMAIN d.rows |->
                 [c \in Range(d.columns) \cup {name} |->
                    IF c = name THEN values[i] ELSE d.rows[i][c]]]]

\* df[name] = values once the lengths agree: an existing column is
\* overwritten where it stands, a new one goes last
SetColumn(d, name, values) ==
    [columns |-> IF name \in Range(d.columns) THEN d.columns
                 ELSE Append(d.columns, name),
     rows |-> [i \in DOMAIN d.rows |->
                 [c \in Range(d.columns) \cup {name} |->
                    IF c = name THEN values[i] ELSE d.rows[i][c]]]]

\* DataFrame._ensure_valid_index: a frame with no rows takes the length of
\* a non-empty list assigned to it, its own columns filled with NaN
EnsureValidIndex(d, values) ==
    IF Len(d.rows) = 0 /\ Len(values) > 0
    THEN [columns |-> d.columns,
          rows |-> [i \in DOMAIN values |-> [c \in Range(d.columns) |-> NaN]]]
    ELSE d

\* DataFrame.__setitem__(name, values) with a list
setitem(d, name, values) ==
    LET e == EnsureValidIndex(d, values)
    IN IF Len(values) # Len(e.rows)
       THEN Result(d, Raised("ValueError: Length of values does not match length of index"))
       ELSE Result(SetColumn(e, name, values), Printed("Column added."))

\* Spreadsheet.add_column
add_column(d, name, values) ==
    IF ~empty(d) /\ Len(values) # Len(d.rows)
    THEN Result(d, Printed("Error: Expected values"))
    ELSE setitem(d, name, values)

RECURSIVE NanSum(_)
\* Series.sum(): the cells that are NaN are skipped
NanSum(series) ==
    IF series = <<>> THEN 0
    ELSE NanSum(Tail(series)) + (IF IsNumber(Head(series)) THEN Head(series).n ELSE 0)

RECURSIVE NanCount(_)
\* Series.count(): the cells that are not NaN
NanCount(series) ==
    IF series = <<>> THEN 0
    ELSE NanCount(Tail(series)) + (IF IsNumber(Head(series)) THEN 1 ELSE 0)

\* Series.mean() had it divided by the length of the column
NanMean_over_len(series) ==
    IF NanCount(series) = 0 THEN NaN
    ELSE [t |-> "quotient", num |-> NanSum(series), den |-> Len(series)]

\* Series.mean(): NaN over no cell, else the quotient sum / count
NanMean(series) ==
    IF NanCount(series) = 0 THEN NaN
    ELSE [t |-> "quotient", num |-> NanSum(series), den |-> NanCount(series)]

\* pd.to_numeric(df[col], errors='coerce')
Coerced(d, col) == [i \in DOMAIN d.rows |-> to_numeric(d.rows[i][col])]

\* Spreadsheet.sum_column
sum_column(d, col) ==
    IF col \notin Range(d.columns)
    THEN Result(d, Printed("Column does not exist."))
    ELSE Result(d, PrintedVal("Sum", NanSum(Coerced(d, col))))

\* Spreadsheet.average_column
average_column(d, col) ==
    IF col \notin Range(d.columns)
    THEN Result(d, Printed("Column does not exist."))
    ELSE Result(d, PrintedVal("Average", NanMean(Coerced(d, col))))

\* the filter had it compared numbers as numbers
Filtered_numeric(d, col, value) ==
    [columns |-> d.columns,
     rows |-> SelectSeq(d.rows,
                        LAMBDA r : \/ astype_str(r[col]) = value
                                   \/ /\ IsNumber(to_numeric(r[col]))
                                      /\ IsNumber(ParseNumber(value))
                                      /\ to_numeric(r[col]).n = ParseNumber(value).n)]

\* self.df[self.df[col].astype(str) == value]
Filtered(d, col, value) ==
    [columns |-> d.columns,
     rows |-> SelectSeq(d.rows, LAMBDA r : astype_str(r[col]) = value)]

\* Spreadsheet.filter_rows
filter_rows(d, col, value) ==
    IF col \notin Range(d.columns)
    THEN Result(d, Printed("Column does not exist."))
    ELSE IF empty(Filtered(d, col, value))
    THEN Result(d, Printed("No rows found"))
    ELSE Result(d, PrintedVal("filtered", Filtered(d, col, value).rows))

Call(fn, args) == [fn |-> fn, args |-> args]

RECURSIVE AtIndices(_, _)
\* the entries of seq whose index is in S, in order
AtIndices(seq, S) ==
    IF seq = <<>> THEN <<>>
    ELSE AtIndices(SubSeq(seq, 1, Len(seq) - 1), S)
         \o (IF Len(seq) \in S THEN <<seq[Len(seq)]>> ELSE <<>>)

\* the series had plot dropped the rows where x or y is NaN
Series_dropna(d, x_col, y_col, kind) ==
    LET x == IF kind \in {"line", "bar"} THEN Coerced(d, x_col) ELSE Column(d, x_col)
        y == Coerced(d, y_col)
        both == {i \in DOMAIN d.rows : IsNumber(x[i]) /\ IsNumber(y[i])}
    IN <<AtIndices(x, both), AtIndices(y, both)>>

\* the x and y series plot hands to pyplot
Series(d, x_col, y_col, kind) ==
    LET x == IF kind \in {"line", "bar"} THEN Coerced(d, x_col) ELSE Column(d, x_col)
        y == Coerced(d, y_col)
    IN <<x, y>>

\* Spreadsheet.plot
plot(d, x_col, y_col, kind) ==
    IF x_col \notin Range(d.columns) \/ y_col \notin Range(d.columns)
    THEN Result(d, Printed("Error: one or both columns do not exist."))
    ELSE LET xy == Series(d, x_col, y_col, kind)
             labels == <<Call("title", <<kind, y_col, x_col>>),
                         Call("xlabel", <<x_col>>),
                         Call("ylabel", <<y_col>>),
                         Call("show", <<>>)>>
         IN IF kind = "line"
            THEN [df |-> d, out |-> Printed(""),
                  rendered |-> <<Call("figure", <<>>), Call("plot", xy)>> \o labels]
            ELSE IF kind = "bar"
            THEN [df |-> d, out |-> Printed(""),
                  rendered |-> <<Call("figure", <<>>), Call("bar", xy)>> \o labels]
            ELSE [df |-> d, out |-> Printed("Unsupported chart type."),
                  rendered |-> <<Call("figure", <<>>)>>]

(***************************************************************************)
(* The calls a client makes: arguments drawn from small sets.              *)
(***************************************************************************)
\* The value lists given to add_row and add_column: of every length up to k,
\* the list of "3"s and the list that alternates "x" and "3".
ValueLists(k) ==
    UNION {{[i \in 1..m |-> StrVal(<<"3">>)],
            [i \in 1..m |-> IF i % 2 = 1 THEN StrVal(<<"x">>) ELSE StrVal(<<"3">>)]} :
           m \in 0..k}
NewNames == {StrVal(<<"a">>), StrVal(<<"b">>)}        \* names given to add_column
QueryCols == NewNames                                 \* names given to the queries
QueryText == {<<"3">>, <<"3", ".", "0">>, <<"x">>}    \* values given to filter_rows
Kinds == {"line", "bar", "pie"}

ViewCounts == {0, 1, 5}                               \* n given to view

InBounds(d) == Len(d.rows) <= MaxRows /\ Len(d.columns) <= MaxCols

\* The model follows a sheet through every call up to its first save to
\* SavePath, and from then on through saves and loads of that file only.
Unsaved == saved.kind = "absent"

Did(name, args, r) ==
    /\ df' = r.df
    /\ out' = r.out
    /\ rendered' = r.rendered
    /\ op' = [name |-> name, args |-> args]
    /\ UNCHANGED <<saved, proc>>

Init ==
    /\ df = DataFrame
    /\ op = [name |-> "__init__", args |-> <<>>]
    /\ out = Printed("")
    /\ rendered = <<>>
    /\ saved = NoFile
    /\ proc = "menu"

LoadCsv ==
    \E path \in Paths \cup {SavePath} :
        /\ Unsaved \/ path = SavePath
        /\ Did("load_csv", <<path>>, load_csv(df, path))

SaveCsv ==
    \E path \in {SavePath, NoDirPath} :
        LET r == save_csv(df, path, saved)
        IN /\ df' = r.df
           /\ out' = r.out
           /\ rendered' = r.rendered
           /\ saved' = r.saved
           /\ op' = [name |-> "save_csv", args |-> <<path>>]
           /\ UNCHANGED proc

View == \E n \in ViewCounts : Unsaved /\ Did("view", <<n>>, view(df, n))

AddRow ==
    \E values \in ValueLists(MaxCols) :
        LET r == add_row(df, values)
        IN /\ Unsaved
           /\ r.df = df \/ InBounds(r.df)
           /\ Did("add_row", <<values>>, r)

AddColumn ==
    \E name \in NewNames, values \in ValueLists(MaxRows) :
        LET r == add_column(df, name, values)
        IN /\ Unsaved
           /\ r.df = df \/ InBounds(r.df)
           /\ Did("add_column", <<name, values>>, r)

SumColumn ==
    \E col \in QueryCols : Unsaved /\ Did("sum_column", <<col>>, sum_column(df, col))

AverageColumn ==
    \E col \in QueryCols :
        Unsaved /\ Did("average_column", <<col>>, average_column(df, col))

FilterRows ==
    \E col \in QueryCols, value \in QueryText :
        Unsaved /\ Did("filter_rows", <<col, value>>, filter_rows(df, col, value))

Plot ==
    \E x_col \in QueryCols, y_col \in QueryCols, kind \in Kinds :
        Unsaved /\ Did("plot", <<x_col, y_col, kind>>, plot(df, x_col, y_col, kind))

Next ==
    \/ LoadCsv
    \/ SaveCsv
    \/ View
    \/ AddRow
    \/ AddColumn
    \/ SumColumn
    \/ AverageColumn
    \/ FilterRows
    \/ Plot

Spec == Init /\ [][Next]_vars

(***************************************************************************)
(* main: the menu loop.  Every choice reads what the user types and calls  *)
(* the method; an exception nothing catches ends the process.              *)
(***************************************************************************)
\* int(text): the int, or ValueError
int(text) ==
    IF text # <<>> /\ AllDigits(text) THEN [ok |-> TRUE, n |-> DigitsVal(text)]
    ELSE [ok |-> FALSE, n |-> 0]

\* what the user types when asked for a number of columns or rows
CountTexts(k) == {IntStr(i) : i \in 0..k} \cup {<<"x">>}
ViewTexts == {<<>>, <<"0">>, <<"1">>, <<"x">>}        \* ... for a number of rows to view
KindTexts == {"", "Bar", "pie"}                       \* ... for a chart type
ChoiceTexts == {"x"}                                  \* ... for a choice that is none

\* int(input(...) or '5'), 5 on ValueError
ViewCount(text) ==
    LET t == IF text = <<>> THEN <<"5">> ELSE text
    IN IF int(t).ok THEN int(t).n ELSE DigitsVal(<<"5">>)

\* input(...).strip().lower() or 'line'
KindOf(text) ==
    LET lower == IF text = "Bar" THEN "bar" ELSE text
    IN IF lower = "" THEN "line" ELSE lower

\* the values choice 4 had asked for, one per row
RowPrompts_per_row(d, cols) == IF empty(d) THEN cols ELSE Len(d.rows)

\* how many values choice 4 asks for: the number typed on an empty sheet,
\* else one per column
RowPrompts(d, cols) == IF empty(d) THEN cols ELSE Len(d.columns)

\* how many values choice 5 asks for: the number typed on an empty sheet,
\* else one per row
ColumnPrompts(d, count) == IF empty(d) THEN count ELSE Len(d.rows)

\* the value lists of length m the user can type
Typed(m) == {v \in ValueLists(m) : Len(v) = m}

\* a method call from the loop: back to the menu unless an exception escapes
DidInMain(name, args, r) ==
    /\ df' = r.df
    /\ out' = r.out
    /\ rendered' = r.rendered
    /\ op' = [name |-> name, args |-> args]
    /\ proc' = IF r.out.raised THEN "crashed" ELSE "menu"
    /\ UNCHANGED saved

\* int(input(...)) raises ValueError in the loop itself
IntRaises(choice, text) ==
    /\ out' = Raised("ValueError: invalid literal for int()")
    /\ rendered' = <<>>
    /\ op' = [name |-> "main", args |-> <<choice, text>>]
    /\ proc' = "crashed"
    /\ UNCHANGED <<df, saved>>

Menu1 ==
    /\ proc = "menu"
    /\ \E path \in Paths \cup {SavePath} :
           /\ Unsaved \/ path = SavePath
           /\ DidInMain("load_csv", <<path>>, load_csv(df, path))

Menu2 ==
    /\ proc = "menu"
    /\ \E path \in {SavePath, NoDirPath} :
           LET r == save_csv(df, path, saved)
           IN /\ df' = r.df
              /\ out' = r.out
              /\ rendered' = r.rendered
              /\ saved' = r.saved
              /\ op' = [name |-> "save_csv", args |-> <<path>>]
              /\ UNCHANGED proc

Menu3 ==
    /\ proc = "menu" /\ Unsaved
    /\ \E text \in ViewTexts :
           DidInMain("view", <<ViewCount(text)>>, view(df, ViewCount(text)))

Menu4 ==
    /\ proc = "menu" /\ Unsaved
    /\ \E text \in CountTexts(MaxCols) :
           IF empty(df) /\ ~int(text).ok THEN IntRaises("4", text)
           ELSE \E values \in Typed(RowPrompts(df, int(text).n)) :
                    LET r == add_row(df, values)
                    IN /\ r.df = df \/ InBounds(r.df)
                       /\ DidInMain("add_row", <<values>>, r)

Menu5 ==
    /\ proc = "menu" /\ Unsaved
    /\ \E name \in NewNames, text \in CountTexts(MaxRows) :
           IF empty(df) /\ ~int(text).ok THEN IntRaises("5", text)
           ELSE \E values \in Typed(ColumnPrompts(df, int(text).n)) :
                    LET r == add_column(df, name, values)
                    IN /\ r.df = df \/ InBounds(r.df)
                       /\ DidInMain("add_column", <<name, values>>, r)

Menu6 ==
    /\ proc = "menu" /\ Unsaved
    /\ \E col \in QueryCols : DidInMain("sum_column", <<col>>, sum_column(df, col))

Menu7 ==
    /\ proc = "menu" /\ Unsaved
    /\ \E col \in QueryCols :
           DidInMain("average_column", <<col>>, average_column(df, col))

Menu8 ==
    /\ proc = "menu" /\ Unsaved
    /\ \E col \in QueryCols, value \in QueryText :
           DidInMain("filter_rows", <<col, value>>, filter_rows(df, col, value))

Menu9 ==
    /\ proc = "menu" /\ Unsaved
    /\ \E x_col \in QueryCols, y_col \in QueryCols, text \in KindTexts :
           DidInMain("plot", <<x_col, y_col, KindOf(text)>>,
                     plot(df, x_col, y_col, KindOf(text)))

Menu0 ==
    /\ proc = "menu"
    /\ out' = Printed("Goodbye!")
    /\ rendered' = <<>>
    /\ op' = [name |-> "exit", args |-> <<"0">>]
    /\ proc' = "exited"
    /\ UNCHANGED <<df, saved>>

MenuOther ==
    /\ proc = "menu"
    /\ \E choice \in ChoiceTexts :
           /\ out' = Printed("Invalid option. Please choose again.")
           /\ rendered' = <<>>
           /\ op' = [name |-> "invalid", args |-> <<choice>>]
           /\ UNCHANGED <<df, saved, proc>>

NextMain ==
    \/ Menu1
    \/ Menu2
    \/ Menu3
    \/ Menu4
    \/ Menu5
    \/ Menu6
    \/ Menu7
    \/ Menu8
    \/ Menu9
    \/ Menu0
    \/ MenuOther

SpecMain == Init /\ [][NextMain]_vars

(***************************************************************************)
(* Properties.                                                             *)
(***************************************************************************)
Unique(seq) == Cardinality(Range(seq)) = Len(seq)
Called(name) == op'.name = name

\* C1: add_row on a table with k >= 1 columns (any number of rows): a list
\* of k values adds exactly one row, after the existing rows, which keep
\* their content and order, and keeps the columns; a list of another length
\* leaves the table unchanged and reports the length error.
C1_AddRowOnColumns ==
    [][Called("add_row") /\ Len(df.columns) >= 1 =>
         LET values == op'.args[1]
         IN IF Len(values) = Len(df.columns)
            THEN /\ df'.columns = df.columns
                 /\ Len(df'.rows) = Len(df.rows) + 1
                 /\ SubSeq(df'.rows, 1, Len(df.rows)) = df.rows
                 /\ \A j \in DOMAIN df.columns :
                        df'.rows[Len(df'.rows)][df.columns[j]] = values[j]
            ELSE /\ df' = df
                 /\ out'.msg = "Error: Expected values"]_vars

\* C2: a load_csv that fails (file not found, empty data, parse error)
\* leaves df as it was and reports that kind of failure; one that succeeds
\* leaves exactly the decoded table in df.
C2_LoadAllOrNothing ==
    [][Called("load_csv") =>
         LET f == FileAt(op'.args[1])
             tooLong == \E i \in DOMAIN f.records : Len(f.records[i]) > Len(f.header)
         IN CASE f.kind = "absent" ->
                    df' = df /\ out'.msg = "Error: File not found."
              [] f.kind = "zero_bytes" \/ (f.kind = "csv" /\ Len(f.header) = 0) ->
                    df' = df /\ out'.msg = "Error: The CSV file is empty."
              [] f.kind = "csv" /\ Len(f.header) > 0 /\ tooLong ->
                    df' = df /\ out'.msg = "Failed to load CSV"
              [] f.kind = "csv" /\ Len(f.header) > 0 /\ ~tooLong ->
                    /\ out'.msg = "Loaded data"
                    /\ df' = read_csv(op'.args[1]).df
                    /\ Len(df'.columns) = Len(f.header)
                    /\ \A j \in DOMAIN f.header :
                           f.header[j] \notin {f.header[k] : k \in 1..(j - 1)}
                           => df'.columns[j] = StrVal(f.header[j])
                    /\ Len(df'.rows) = Len(f.records)
                    /\ \A i \in DOMAIN df'.rows :
                           DOMAIN df'.rows[i] = Range(df'.columns)]_vars

\* a failed load has left a table with data in place
C2_Witness ==
    /\ op.name = "load_csv"
    /\ out.msg \in {"Error: File not found.", "Error: The CSV file is empty.",
                    "Failed to load CSV"}
    /\ ~empty(df)

\* C3: add_column on a table with r >= 1 rows: a list of another length
\* than r leaves the table unchanged and reports the length error; a list
\* of r values succeeds, a new name becomes the last column, an existing
\* one keeps its place and takes the values, the rows stay r and in every
\* row only the cell of that name is added or changed.
C3_AddColumnOnRows ==
    [][Called("add_column") /\ Len(df.rows) >= 1 =>
         LET name == op'.args[1]
             values == op'.args[2]
         IN IF Len(values) # Len(df.rows)
            THEN /\ df' = df
                 /\ out'.msg = "Error: Expected values"
            ELSE /\ out'.msg = "Column added."
                 /\ df'.columns = IF name \in Range(df.columns) THEN df.columns
                                  ELSE Append(df.columns, name)
                 /\ Len(df'.rows) = Len(df.rows)
                 /\ \A i \in DOMAIN df.rows :
                        /\ df'.rows[i][name] = values[i]
                        /\ \A c \in Range(df.columns) \ {name} :
                               df'.rows[i][c] = df.rows[i][c]]_vars

\* C4: add_column with a non-empty list on a table that has columns but no
\* rows is rejected and leaves the table unchanged.
C4_AddColumnOnHeaderOnly ==
    [][/\ Called("add_column")
       /\ Len(df.columns) >= 1
       /\ Len(df.rows) = 0
       /\ Len(op'.args[2]) > 0
       => /\ df' = df
          /\ out'.msg # "Column added."]_vars

\* C5: add_row on a store with no columns yet: the m values become the one
\* row of a table whose columns are the ints 0..m-1 in order, value i under
\* column i.
C5_AddRowOnEmpty ==
    [][Called("add_row") /\ Len(df.columns) = 0 =>
         LET values == op'.args[1]
         IN /\ out'.msg = "Row added."
            /\ Len(df'.columns) = Len(values)
            /\ \A j \in DOMAIN values : df'.columns[j] = IntVal(j - 1)
            /\ Len(df'.rows) = 1
            /\ DOMAIN df'.rows[1] = {IntVal(j - 1) : j \in DOMAIN values}
            /\ \A j \in DOMAIN values : df'.rows[1][IntVal(j - 1)] = values[j]]_vars

\* add_row(["x", "3"]) on the empty store has made columns 0, 1 and the row
\* {0: "x", 1: "3"}
C5_Witness ==
    /\ op.name = "add_row"
    /\ op.args[1] = <<StrVal(<<"x">>), StrVal(<<"3">>)>>
    /\ df.columns = <<IntVal(0), IntVal(1)>>
    /\ Len(df.rows) = 1
    /\ df.rows[1][IntVal(0)] = StrVal(<<"x">>)
    /\ df.rows[1][IntVal(1)] = StrVal(<<"3">>)

Rectangular(d) ==
    /\ Unique(d.columns)
    /\ \A i \in DOMAIN d.rows : DOMAIN d.rows[i] = Range(d.columns)

\* the columns of d that e still has stand in e in the order they had in d
KeepsOrder(d, e) ==
    \A i, j \in DOMAIN d.columns :
        i < j /\ d.columns[i] \in Range(e.columns) /\ d.columns[j] \in Range(e.columns)
        => IndexOf(e.columns, d.columns[i]) < IndexOf(e.columns, d.columns[j])

\* C6: after any calls of load_csv, add_row and add_column, failed or not,
\* every row has exactly the table's columns as its keys and no column name
\* occurs twice; add_row and add_column on a table with columns keep the
\* columns that were there in their order.
C6_Rectangular ==
    /\ []Rectangular(df)
    /\ [][(Called("add_row") \/ Called("add_column")) /\ Len(df.columns) >= 1
          => KeepsOrder(df, df')]_vars

\* add_column has overwritten the first of two columns of a two-row table,
\* which stays first
C6_Witness ==
    /\ op.name = "add_column"
    /\ out.msg = "Column added."
    /\ Len(df.columns) = 2
    /\ Len(df.rows) = 2
    /\ op.args[1] = df.columns[1]
    /\ \A i \in DOMAIN df.rows : df.rows[i][df.columns[1]] = op.args[2][i]

RECURSIVE SumOver(_, _)
\* the sum of f[i] over the i in S
SumOver(S, f) ==
    IF S = {} THEN 0
    ELSE LET i == CHOOSE k \in S : TRUE IN f[i] + SumOver(S \ {i}, f)

\* the rows of d whose cell under col coerces to a number
Coercible(d, col) == {i \in DOMAIN d.rows : IsNumber(to_numeric(d.rows[i][col]))}

\* C7: on an existing column, sum_column prints the sum of the cells that
\* coerce to a number (zero when none does), the others left out;
\* average_column prints that sum over the count of those cells, and NaN,
\* which is neither zero nor a failure, when none coerces.
C7_Aggregate ==
    op.name \in {"sum_column", "average_column"} /\ op.args[1] \in Range(df.columns) =>
        LET col == op.args[1]
            total == SumOver(Coercible(df, col),
                             [i \in DOMAIN df.rows |-> to_numeric(df.rows[i][col]).n])
        IN /\ ~out.raised
           /\ op.name = "sum_column" =>
                  /\ out.msg = "Sum"
                  /\ out.val = total
                  /\ Coercible(df, col) = {} => out.val = 0
           /\ op.name = "average_column" =>
                  /\ out.msg = "Average"
                  /\ IF Coercible(df, col) = {} THEN out.val.t = "nan"
                     ELSE /\ out.val.t = "quotient"
                          /\ out.val.num = total
                          /\ out.val.den = Cardinality(Coercible(df, col))

\* the average of a column with a cell that does not coerce has been taken
\* over the cells that do
C7_Witness ==
    /\ op.name = "average_column"
    /\ out.msg = "Average"
    /\ out.val.t = "quotient"
    /\ out.val.den >= 1
    /\ out.val.den < Len(df.rows)

\* C8: on an existing column, filter_rows prints exactly the rows whose cell
\* has a string form equal to the value, in table order ("3" is the form of
\* the text "3" and of the int 3, not of the float 3.0, and "x" is not "X"),
\* and prints the no-rows message exactly when no row matches.
C8_Filter ==
    op.name = "filter_rows" /\ op.args[1] \in Range(df.columns) =>
        LET col == op.args[1]
            value == op.args[2]
            hits == {i \in DOMAIN df.rows : astype_str(df.rows[i][col]) = value}
        IN /\ (hits = {}) <=> (out.msg = "No rows found")
           /\ hits # {} =>
                  /\ out.msg = "filtered"
                  /\ Len(out.val) = Cardinality(hits)
                  /\ \E f \in [DOMAIN out.val -> hits] :
                         /\ \A j, k \in DOMAIN out.val : j < k => f[j] < f[k]
                         /\ \A k \in DOMAIN out.val : out.val[k] = df.rows[f[k]]
                  /\ value = <<"3">> =>
                         \A k \in DOMAIN out.val :
                             out.val[k][col] \in {StrVal(<<"3">>), IntVal(3)}
                  /\ value = <<"x">> =>
                         \A k \in DOMAIN out.val : out.val[k][col] = StrVal(<<"x">>)
           /\ value = <<"3">> =>
                  \A i \in DOMAIN df.rows :
                      df.rows[i][col] \in {StrVal(<<"3">>), IntVal(3)} => i \in hits

\* "3" has been looked for in a column that holds the float 3.0, and no
\* row was found
C8_Witness ==
    /\ op.name = "filter_rows"
    /\ op.args[2] = <<"3">>
    /\ op.args[1] \in Range(df.columns)
    /\ out.msg = "No rows found"
    /\ \E i \in DOMAIN df.rows : df.rows[i][op.args[1]] = FloatVal(3)

\* C9: plot with both columns present and a kind other than line and bar
\* reports the unsupported chart type and makes no pyplot call at all; with
\* a column absent it reports the missing column and makes no pyplot call.
C9_NoRendering ==
    op.name = "plot" =>
        LET x_col == op.args[1]
            y_col == op.args[2]
            kind == op.args[3]
        IN IF x_col \notin Range(df.columns) \/ y_col \notin Range(df.columns)
           THEN /\ out.msg = "Error: one or both columns do not exist."
                /\ rendered = <<>>
           ELSE kind \notin {"line", "bar"} =>
                    /\ out.msg = "Unsupported chart type."
                    /\ rendered = <<>>

Plotted ==
    /\ op.name = "plot"
    /\ op.args[3] \in {"line", "bar"}
    /\ op.args[1] \in Range(df.columns)
    /\ op.args[2] \in Range(df.columns)

C11_RoundTrip ==
    [][/\ Called("load_csv")
       /\ op'.args[1] = SavePath
       /\ saved.kind = "csv"
       /\ saved = to_csv(df)
       => /\ out'.msg = "Loaded data"
          /\ df' = df]_vars

\* C12: save_csv, view, sum_column, average_column, filter_rows and plot
\* leave df as it was, whether they succeed or fail.
C12_ReadersKeepTable ==
    [][op'.name \in {"save_csv", "view", "sum_column", "average_column",
                     "filter_rows", "plot"}
       => df' = df]_vars

\* a view of fewer rows than the table has was printed, and the table still
\* has them all
C12_Witness ==
    /\ op.name = "view"
    /\ out.msg = "head"
    /\ Len(out.val.rows) < Len(df.rows)

\* a table has data when it has a cell: at least one row and one column
HasData(d) == Len(d.rows) >= 1 /\ Len(d.columns) >= 1

\* C13: view(n), n >= 0, on a table with data prints its first min(n, rows)
\* rows in table order (none for n = 0); it prints the empty message exactly
\* when the table has no data.
C13_View ==
    op.name = "view" /\ op.args[1] >= 0 =>
        LET n == op.args[1]
            k == IF n < Len(df.rows) THEN n ELSE Len(df.rows)
        IN /\ (out.msg = "The spreadsheet is empty.") <=> ~HasData(df)
           /\ HasData(df) =>
                  /\ out.msg = "head"
                  /\ out.val.columns = df.columns
                  /\ Len(out.val.rows) = k
                  /\ \A i \in 1..k : out.val.rows[i] = df.rows[i]

\* view(0) on a table with data has printed no row, not the empty message
C13_Witness ==
    /\ op.name = "view"
    /\ op.args[1] = 0
    /\ HasData(df)
    /\ out.msg = "head"
    /\ out.val.rows = <<>>

\* C14: the menu loop ends only through choice "0": after any other input
\* the process is back at the menu.
C14_OnlyZeroEnds ==
    proc # "menu" => proc = "exited" /\ op.name = "exit"

\* C15: driven through the menu loop, add_row and add_column never print
\* their length error: on a sheet that is not empty the loop asks for one
\* value per column (choice 4) and one per row (choice 5).
C15_NoLengthError ==
    op.name \in {"add_row", "add_column"} => out.msg # "Error: Expected values"

\* choice 4 has added a second row to a table of two columns
C15_Witness ==
    /\ op.name = "add_row"
    /\ out.msg = "Row added."
    /\ Len(df.rows) = 2
    /\ Len(df.columns) = 2

====
